---- MODULE Spec2Model ----
(***************************************************************************)
(* Model of monitor.py: the change tracker (run_check) and the daily       *)
(* summary (run_daily_summary) working on the persisted state file.        *)
(*                                                                         *)
(* Text is a sequence of one-character strings; " " stands for any         *)
(* whitespace.  An optional value (Python None / a missing state file) is  *)
(* the empty tuple None, a present value x is the one-element tuple        *)
(* Some(x), so that the absent value differs from the empty string.        *)
(*                                                                         *)
(* The environment: a fetch may fail, the page may lack what the           *)
(* extraction rule asks for, generate_pdf may raise and send_email may     *)
(* raise; the state file and the log are reliable.  One step of the        *)
(* machine is one whole invocation of run_check or run_daily_summary.      *)
(***************************************************************************)
EXTENDS Integers, Sequences, FiniteSets, TLC

VARIABLES file, clock, last, changedToday, notifiedToday, pendingChange,
          summaryLog, changedSinceReset, ck, ds, done

vars ==
    <<file, clock, last, changedToday, notifiedToday, pendingChange, summaryLog,
      changedSinceReset, ck, ds, done>>

\* ------------------------------------------------------------------ bounds
\* longest raw text a page yields for a selector node or a capture group
MaxLen == 2
\* last tick of the clock
MaxClock == 2
\* ticks of the clock in one UTC day
TicksPerDay == 2

\* ------------------------------------------------------------------ values
None == <<>>

Some(x) == <<x>>

Chars == {" ", "a"}

Texts == UNION {[1..n -> Chars] : n \in 0..MaxLen}

\* str.strip(): drop leading and trailing whitespace
RECURSIVE LStrip(_)
LStrip(s) == IF s # <<>> /\ Head(s) = " " THEN LStrip(Tail(s)) ELSE s

RECURSIVE RStrip(_)
RStrip(s) ==
    IF s # <<>> /\ s[Len(s)] = " " THEN RStrip(SubSeq(s, 1, Len(s) - 1)) ELSE s

Strip(s) == RStrip(LStrip(s))

\* code point of a character, for the digest
CharCode(c) == IF c = " " THEN 1 ELSE 2

\* hashlib.sha256(s).hexdigest(): a digest that depends on every character
\* and on the length, free of collisions on the bounded texts
RECURSIVE value_hash(_)
value_hash(s) ==
    IF s = <<>> THEN 0
    ELSE 3 * value_hash(SubSeq(s, 1, Len(s) - 1)) + CharCode(s[Len(s)])

\* ------------------------------------------------------------------- clock
now_utc == clock

today_key(now) == now \div TicksPerDay

\* ------------------------------------------------------------- state store
EmptyState ==
    [last_value |-> None, last_value_hash |-> None, last_change_ts |-> None,
     changes_today |-> FALSE, last_summary_day |-> None]

load_state(f) == IF f # None THEN f[1] ELSE EmptyState

save_state(state) == Some(state)

\* --------------------------------------------------- configuration, fetch
\* the environment of one invocation: is MONITOR_URL / MONITOR_CSS_SELECTOR /
\* MONITOR_REGEX_CAPTURE set
Configs == [url : BOOLEAN, css : BOOLEAN, regex : BOOLEAN]

\* what the server answers: an HTTP error, or a page in which the selector
\* matches a node with some text (or none) and the pattern matches with some
\* group 1 (or does not match)
Pages ==
    [http_ok : {FALSE}, node : {None}, group : {None}]
    \cup [http_ok : {TRUE}, node : {None} \cup {Some(t) : t \in Texts},
          group : {None} \cup {Some(t) : t \in Texts}]

Ok(v) == [ok |-> TRUE, value |-> v, err |-> "none"]

Err(e) == [ok |-> FALSE, value |-> <<>>, err |-> e]

extract_value(html, cfg) ==
    IF cfg.css
    THEN IF html.node = None THEN Err("SelectorNotFound")
         ELSE IF Strip(html.node[1]) = <<>> THEN Err("SelectorEmptyText")
         ELSE Ok(Strip(html.node[1]))
    ELSE IF cfg.regex
    THEN IF html.group = None \/ html.group[1] = <<>> THEN Err("RegexNoGroup")
         ELSE Ok(Strip(html.group[1]))
    ELSE Err("NoExtractionRule")

\* fetch_content followed by extract_value, as in the try block of run_check
FetchExtract(page, cfg) ==
    IF ~page.http_ok THEN Err("FetchError") ELSE extract_value(page, cfg)

\* ------------------------------------------------------------ notification
\* how the SMTP side of send_email ends: the message is handed over, the SMTP
\* settings are incomplete (send_email prints a note and returns), or smtplib
\* raises
Mail == {"delivered", "not_configured", "failed"}

URL == "url"

\* the call send_email(subject, body, ...) of run_check: subject "Change
\* detected", body with URL, old value, new value and time
ChangeAlert(old_value, current_value, now, mail) ==
    [kind |-> "Change detected", url |-> URL, old |-> old_value,
     new |-> Some(current_value), ts |-> Some(now), day |-> None,
     delivery |-> mail]

\* the call send_email(subject, body) of run_daily_summary: subject "No
\* changes detected", body with the day and URL
DailyAlert(today, mail) ==
    [kind |-> "No changes detected", url |-> URL, old |-> None, new |-> None,
     ts |-> None, day |-> Some(today), delivery |-> mail]

\* -------------------------------------------------------------- operations
\* where an invocation ends: file is the state file afterwards, outcome the
\* branch it ended in ("Raised": an exception left the function, at raisedAt),
\* err the error its log line carries, notifs the send_email calls made,
\* writes the number of save_state calls, loads and fetches the numbers of
\* load_state and fetch_content calls
End(f, outcome, err, notifs, writes, raisedAt) ==
    [file |-> f, outcome |-> outcome, err |-> err, notifs |-> notifs,
     writes |-> writes, raisedAt |-> raisedAt, loads |-> 0, fetches |-> 0]

\* the end e of an invocation that called load_state and fetch_content so often
After(loads, fetches, e) == [e EXCEPT !.loads = loads, !.fetches = fetches]

\* the four assignments of run_check to the loaded state
\* (mutant: the hash is left as it was)
changed_state_stale_hash(state, current_value, current_hash, now) ==
    [state EXCEPT !.last_value = Some(current_value),
                  !.last_change_ts = Some(now),
                  !.changes_today = TRUE]

\* (mutant: the summary day is cleared along with the update)
changed_state_clears_summary(state, current_value, current_hash, now) ==
    [state EXCEPT !.last_value = Some(current_value),
                  !.last_value_hash = current_hash,
                  !.last_change_ts = Some(now),
                  !.changes_today = TRUE,
                  !.last_summary_day = None]

changed_state(state, current_value, current_hash, now) ==
    [state EXCEPT !.last_value = Some(current_value),
                  !.last_value_hash = current_hash,
                  !.last_change_ts = Some(now),
                  !.changes_today = TRUE]

\* (mutant: the state is saved on the no-change path too)
compare_and_update_saves_always(f, state, current_value, pdf_ok, mail, now) ==
    LET current_hash == Some(value_hash(current_value)) IN
    IF state.last_value_hash = current_hash
    THEN End(save_state(state), "NoChange", "none", <<>>, 1, "none")
    ELSE
    LET old_value == state.last_value
        new_state == changed_state(state, current_value, current_hash, now)
        alert == ChangeAlert(old_value, current_value, now, mail)
    IN
    IF ~pdf_ok
    THEN End(f, "Raised", "none", <<>>, 0, "generate_pdf")
    ELSE IF mail = "failed"
    THEN End(save_state(new_state), "Raised", "none", <<alert>>, 1,
             "send_email")
    ELSE End(save_state(new_state), "Changed", "none", <<alert>>, 1, "none")

\* (mutant: the hashes are not compared, every extracted value is a change)
compare_and_update_always_changed(f, state, current_value, pdf_ok, mail, now) ==
    LET current_hash == Some(value_hash(current_value))
        old_value == state.last_value
        new_state == changed_state(state, current_value, current_hash, now)
        alert == ChangeAlert(old_value, current_value, now, mail)
    IN
    IF ~pdf_ok
    THEN End(f, "Raised", "none", <<>>, 0, "generate_pdf")
    ELSE IF mail = "failed"
    THEN End(save_state(new_state), "Raised", "none", <<alert>>, 1,
             "send_email")
    ELSE End(save_state(new_state), "Changed", "none", <<alert>>, 1, "none")

\* run_check from the comparison of the hashes on
compare_and_update(f, state, current_value, pdf_ok, mail, now) ==
    LET current_hash == Some(value_hash(current_value)) IN
    IF state.last_value_hash = current_hash
    THEN End(f, "NoChange", "none", <<>>, 0, "none")
    ELSE
    LET old_value == state.last_value
        new_state == changed_state(state, current_value, current_hash, now)
        alert == ChangeAlert(old_value, current_value, now, mail)
    IN
    IF ~pdf_ok
    THEN End(f, "Raised", "none", <<>>, 0, "generate_pdf")
    ELSE IF mail = "failed"
    THEN End(save_state(new_state), "Raised", "none", <<alert>>, 1,
             "send_email")
    ELSE End(save_state(new_state), "Changed", "none", <<alert>>, 1, "none")

\* (mutant: a failed fetch or extraction counts as the empty value)
run_check_failure_as_empty(f, cfg, r, pdf_ok, mail, now) ==
    IF ~cfg.url
    THEN End(f, "ConfigError", "none", <<>>, 0, "SystemExit")
    ELSE After(1, 1, compare_and_update(f, load_state(f),
                                        IF r.ok THEN r.value ELSE <<>>,
                                        pdf_ok, mail, now))

run_check(f, cfg, r, pdf_ok, mail, now) ==
    IF ~cfg.url
    THEN End(f, "ConfigError", "none", <<>>, 0, "SystemExit")
    ELSE
    LET state == load_state(f) IN
    After(1, 1,
          IF ~r.ok
          THEN End(f, "ExtractionFailed", r.err, <<>>, 0, "none")
          ELSE compare_and_update(f, state, r.value, pdf_ok, mail, now))

\* (mutant: the changes_today branch is missing)
run_daily_summary_always_sends(f, force, mail, now) ==
    LET state == load_state(f)
        today == today_key(now)
        already_sent_today == (state.last_summary_day = Some(today))
        new_state == [state EXCEPT !.changes_today = FALSE,
                                   !.last_summary_day = Some(today)]
    IN
    After(1, 0,
          IF already_sent_today /\ ~force
          THEN End(f, "AlreadySent", "none", <<>>, 0, "none")
          ELSE IF mail = "failed"
          THEN End(f, "Raised", "none", <<DailyAlert(today, mail)>>, 0,
                   "send_email")
          ELSE End(save_state(new_state), "Sent", "none",
                   <<DailyAlert(today, mail)>>, 1, "none"))

\* (mutant: the summary starts from a fresh state instead of the loaded one)
run_daily_summary_fresh_state(f, force, mail, now) ==
    LET state == load_state(f)
        today == today_key(now)
        already_sent_today == (state.last_summary_day = Some(today))
        new_state == [EmptyState EXCEPT !.last_summary_day = Some(today)]
    IN
    After(1, 0,
          IF already_sent_today /\ ~force
          THEN End(f, "AlreadySent", "none", <<>>, 0, "none")
          ELSE IF state.changes_today
          THEN End(save_state(new_state), "SkippedChangesOccurred", "none",
                   <<>>, 1, "none")
          ELSE IF mail = "failed"
          THEN End(f, "Raised", "none", <<DailyAlert(today, mail)>>, 0,
                   "send_email")
          ELSE End(save_state(new_state), "Sent", "none",
                   <<DailyAlert(today, mail)>>, 1, "none"))

run_daily_summary(f, force, mail, now) ==
    LET state == load_state(f)
        today == today_key(now)
        already_sent_today == (state.last_summary_day = Some(today))
        new_state == [state EXCEPT !.changes_today = FALSE,
                                   !.last_summary_day = Some(today)]
    IN
    After(1, 0,
          IF already_sent_today /\ ~force
          THEN End(f, "AlreadySent", "none", <<>>, 0, "none")
          ELSE IF state.changes_today
          THEN End(save_state(new_state), "SkippedChangesOccurred", "none",
                   <<>>, 1, "none")
          ELSE IF mail = "failed"
          THEN End(f, "Raised", "none", <<DailyAlert(today, mail)>>, 0,
                   "send_email")
          ELSE End(save_state(new_state), "Sent", "none",
                   <<DailyAlert(today, mail)>>, 1, "none"))

\* ------------------------------------------------------------ the machine
\* the try block of run_check did not run
NotRun == Err("NotRun")

\* what of the configuration decides the path of an invocation: is the URL
\* set, is an extraction rule (selector or pattern) set
Settings(cfg) == [url |-> cfg.url, rule |-> (cfg.css \/ cfg.regex)]

AllSet == [url |-> TRUE, rule |-> TRUE]

\* what one Check invocation meets: its settings, what fetch and extraction
\* make of the page served under its configuration (NotRun without a URL,
\* when neither is called), whether generate_pdf succeeds, and how the SMTP
\* side ends
CheckInputs ==
    {[cfg |-> Settings(c),
      r |-> IF c.url THEN FetchExtract(p, c) ELSE NotRun,
      pdf_ok |-> ok, mail |-> m] :
        c \in Configs, p \in Pages, ok \in BOOLEAN, m \in Mail}

\* last: the most recent invocation.  Besides what End gives: op, the
\* operation; config, its settings (AllSet for a DailySummary, which reads
\* none); r, what the try block of run_check came to (NotRun when the
\* invocation has none or ends before it); force, the flag it was called with;
\* now, its time; pre, the state file before it; pending, changed and
\* notified, the values of pendingChange, changedToday and notifiedToday before
\* it; repeat, whether it is a Check that extracted the value which the
\* invocation right before it, also a Check, extracted.
\* The other history variables:
\*   changedToday   a Check ended Changed on the current UTC day
\*   notifiedToday  a Check called send_email on the current UTC day
\*   pendingChange  a Check ended Changed on the current UTC day and no
\*                  DailySummary was invoked since
\*   summaryLog     n: the number of DailySummary invocations on the current
\*                  UTC day (3: three or more); unforced: none of them had
\*                  force set
NoOp ==
    [op |-> "none", config |-> AllSet, r |-> NotRun, outcome |-> "none",
     err |-> "none", notifs |-> <<>>, writes |-> 0, raisedAt |-> "none",
     loads |-> 0, fetches |-> 0, force |-> FALSE,
     now |-> 0, pre |-> None, pending |-> FALSE, changed |-> FALSE,
     notified |-> FALSE, repeat |-> FALSE]

Record(op, config, r, out, force) ==
    [op |-> op, config |-> config, r |-> r, outcome |-> out.outcome,
     err |-> out.err, notifs |-> out.notifs, writes |-> out.writes,
     raisedAt |-> out.raisedAt, loads |-> out.loads, fetches |-> out.fetches,
     force |-> force, now |-> now_utc, pre |-> file, pending |-> pendingChange,
     changed |-> changedToday, notified |-> notifiedToday,
     repeat |-> (op = "check" /\ last.op = "check" /\ r.ok /\ last.r = r)]

NoSummary == [n |-> 0, unforced |-> TRUE]

\* ck, ds: a run_check and a run_daily_summary invocation between their
\* load_state and their end; loaded is the state file they read, now the time
\* at which run_daily_summary took today_key
Idle == [phase |-> "idle", loaded |-> None, now |-> 0]

Loaded(f, now) == [phase |-> "loaded", loaded |-> f, now |-> now]

\* done: the invocation that ended last among overlapping ones: the file it
\* had loaded, the file it found on disk at its end, whether it saved
NoneDone == [op |-> "none", loaded |-> None, found |-> None, wrote |-> FALSE]

Ended(op, inv, out) ==
    [op |-> op, loaded |-> inv.loaded, found |-> file,
     wrote |-> (out.writes = 1)]

Init ==
    /\ file = None
    /\ clock = 0
    /\ last = NoOp
    /\ changedToday = FALSE
    /\ notifiedToday = FALSE
    /\ pendingChange = FALSE
    /\ summaryLog = NoSummary
    /\ changedSinceReset = FALSE
    /\ ck = Idle
    /\ ds = Idle
    /\ done = NoneDone

\* time passes between invocations
Tick ==
    /\ clock < MaxClock
    /\ clock' = clock + 1
    /\ IF today_key(clock + 1) # today_key(clock)
       THEN /\ changedToday' = FALSE
            /\ notifiedToday' = FALSE
            /\ pendingChange' = FALSE
            /\ summaryLog' = NoSummary
       ELSE UNCHANGED <<changedToday, notifiedToday, pendingChange, summaryLog>>
    /\ UNCHANGED <<file, last, changedSinceReset, ck, ds, done>>

\* one invocation with --check
Check ==
    \E x \in {[config |-> i.cfg, r |-> i.r,
               out |-> run_check(file, i.cfg, i.r, i.pdf_ok, i.mail, now_utc)] :
              i \in CheckInputs} :
        /\ file' = x.out.file
        /\ last' = Record("check", x.config, x.r, x.out, FALSE)
        /\ changedToday' = (changedToday \/ x.out.outcome = "Changed")
        /\ notifiedToday' = (notifiedToday \/ x.out.notifs # <<>>)
        /\ pendingChange' = (pendingChange \/ x.out.outcome = "Changed")
        /\ changedSinceReset' =
               (changedSinceReset \/ x.out.outcome = "Changed")
        /\ UNCHANGED <<clock, summaryLog, ck, ds, done>>

\* one invocation with --daily-summary, with or without --force-summary
DailySummary ==
    \E force \in BOOLEAN :
    \E out \in {run_daily_summary(file, force, mail, now_utc) : mail \in Mail} :
        /\ file' = out.file
        /\ last' = Record("summary", AllSet, NotRun, out, force)
        /\ pendingChange' = FALSE
        /\ summaryLog' = [n |-> IF summaryLog.n < 3
                                THEN summaryLog.n + 1 ELSE summaryLog.n,
                          unforced |-> (summaryLog.unforced /\ ~force)]
        /\ changedSinceReset' =
               (changedSinceReset
                    /\ out.outcome \notin {"Sent", "SkippedChangesOccurred"})
        /\ UNCHANGED <<clock, changedToday, notifiedToday, ck, ds, done>>

Next == Tick \/ Check \/ DailySummary

Spec == Init /\ [][Next]_vars

\* ------------------------------------------- overlapping invocations
\* run_check and run_daily_summary hold no lock on the state file: each is
\* here two steps, its load_state and the rest of the function, and the steps
\* of one invocation of each interleave freely
history == <<last, changedToday, notifiedToday, pendingChange, summaryLog,
             changedSinceReset>>

\* run_check with the URL set, up to and including state = load_state()
CheckLoad ==
    /\ ck.phase = "idle"
    /\ ck' = Loaded(file, 0)
    /\ UNCHANGED <<file, clock, ds, done, history>>

\* run_check from the try block to its end, on the state it loaded
CheckFinish ==
    /\ ck.phase = "loaded"
    /\ \E out \in {run_check(ck.loaded, i.cfg, i.r, i.pdf_ok, i.mail, now_utc) :
                    i \in {j \in CheckInputs : j.cfg.url}} :
           /\ file' = IF out.writes = 1 THEN out.file ELSE file
           /\ done' = Ended("check", ck, out)
    /\ ck' = Idle
    /\ UNCHANGED <<clock, ds, history>>

\* run_daily_summary up to and including today = today_key()
SummaryLoad ==
    /\ ds.phase = "idle"
    /\ ds' = Loaded(file, now_utc)
    /\ UNCHANGED <<file, clock, ck, done, history>>

\* run_daily_summary from the already-sent guard to its end
SummaryFinish ==
    /\ ds.phase = "loaded"
    /\ \E force \in BOOLEAN :
       \E out \in {run_daily_summary(ds.loaded, force, mail, ds.now) :
                    mail \in Mail} :
           /\ file' = IF out.writes = 1 THEN out.file ELSE file
           /\ done' = Ended("summary", ds, out)
    /\ ds' = Idle
    /\ UNCHANGED <<clock, ck, history>>

NextOverlap ==
    Tick \/ CheckLoad \/ CheckFinish \/ SummaryLoad \/ SummaryFinish

SpecOverlap == Init /\ [][NextOverlap]_vars

\* ------------------------------------------------------------------ claims
\* the state the last invocation loaded, and the state on file now
PreState == load_state(last.pre)

NowState == load_state(file)

\* the hash of the value the last Check extracted differs from the stored one
HashDiffers ==
    last.r.ok /\ PreState.last_value_hash # Some(value_hash(last.r.value))

\* C1: a Check that extracts the value which the Check right before it
\* extracted ends NoChange, leaves the state file as it was and calls
\* send_email not at all
C1_Idempotence ==
    (last.op = "check" /\ last.repeat) =>
        /\ last.outcome = "NoChange"
        /\ last.writes = 0
        /\ file = last.pre
        /\ last.notifs = <<>>

\* C2: a Check that finds no state file and extracts a value V ends Changed
\* with the old value absent (not the empty string) and the new value V, and
\* leaves last_value = V on file
C2_FirstRunBaseline ==
    (last.op = "check" /\ last.pre = None /\ last.r.ok) =>
        /\ last.outcome = "Changed"
        /\ Len(last.notifs) = 1
        /\ last.notifs[1].old = None
        /\ last.notifs[1].new = Some(last.r.value)
        /\ NowState.last_value = Some(last.r.value)

\* C3: in every reachable state last_value and last_value_hash are both
\* absent, or both present with last_value_hash the hash of last_value
C3_HashConsistency ==
    \/ NowState.last_value = None /\ NowState.last_value_hash = None
    \/ /\ NowState.last_value # None
       /\ NowState.last_value_hash = Some(value_hash(NowState.last_value[1]))

\* a stored value was replaced by another one
C3_Witness ==
    /\ last.op = "check"
    /\ last.outcome = "Changed"
    /\ PreState.last_value # None
    /\ NowState.last_value # PreState.last_value

ExtractionErrors ==
    {"FetchError", "SelectorNotFound", "SelectorEmptyText", "RegexNoGroup"}

\* C4: a Check whose fetch or extraction fails (HTTP error, selector not
\* found, empty text, no regex match) ends ExtractionFailed, leaves the state
\* file as it was and calls send_email not at all
C4_FailurePath ==
    (last.op = "check" /\ last.r.err \in ExtractionErrors) =>
        /\ last.outcome = "ExtractionFailed"
        /\ last.err = last.r.err
        /\ last.writes = 0
        /\ file = last.pre
        /\ last.notifs = <<>>

\* an extraction failed while a value is on file whose hash is not that of the
\* empty text
C4_Witness ==
    /\ last.op = "check"
    /\ last.r.err = "SelectorEmptyText"
    /\ last.outcome = "ExtractionFailed"
    /\ file # None
    /\ NowState.last_value \notin {None, Some(<<>>)}

\* C5: a Check that extracts a value whose hash differs from the stored one
\* (or none is stored) ends Changed, writes once the loaded state with
\* last_value, last_value_hash, last_change_ts = now and changes_today = true
\* replaced, and calls send_email once with the old value, the new value, the
\* time and the URL
C5_ChangedStep ==
    (last.op = "check" /\ HashDiffers) =>
        /\ last.outcome = "Changed"
        /\ last.writes = 1
        /\ file = Some([PreState EXCEPT
                           !.last_value = Some(last.r.value),
                           !.last_value_hash = Some(value_hash(last.r.value)),
                           !.last_change_ts = Some(last.now),
                           !.changes_today = TRUE])
        /\ Len(last.notifs) = 1
        /\ last.notifs[1].kind = "Change detected"
        /\ last.notifs[1].old = PreState.last_value
        /\ last.notifs[1].new = Some(last.r.value)
        /\ last.notifs[1].ts = Some(last.now)
        /\ last.notifs[1].url = URL

\* the UTC day of the last invocation, and whether that day is the one the
\* loaded state has as last_summary_day
LastDay == today_key(last.now)

AlreadyMarked == (PreState.last_summary_day = Some(LastDay))

\* the "No changes detected" messages the last invocation handed over
SummariesSent ==
    {k \in 1..Len(last.notifs) :
        /\ last.notifs[k].kind = "No changes detected"
        /\ last.notifs[k].delivery = "delivered"}

\* C6: of two DailySummary invocations without force on one UTC day, the
\* day's first two, the first ends Sent or SkippedChangesOccurred and the
\* second ends AlreadySent, leaves the state file as it was and calls
\* send_email not at all, whatever Checks run in between
C6_SummaryDedup ==
    (last.op = "summary" /\ summaryLog.unforced) =>
        /\ summaryLog.n = 1 =>
               last.outcome \in {"Sent", "SkippedChangesOccurred"}
        /\ summaryLog.n = 2 =>
               /\ last.outcome = "AlreadySent"
               /\ last.writes = 0
               /\ file = last.pre
               /\ last.notifs = <<>>

\* C7 as claimed: the first DailySummary invoked after a Check ended Changed,
\* on the same UTC day, ends SkippedChangesOccurred without a call of
\* send_email and leaves changes_today false, whatever ran before on that day
C7_ChangeSuppressesSummary ==
    (last.op = "summary" /\ last.pending) =>
        /\ last.outcome = "SkippedChangesOccurred"
        /\ last.notifs = <<>>
        /\ ~NowState.changes_today

\* C7 as amended: the first DailySummary invoked after a Check ended Changed,
\* on the same UTC day, ends SkippedChangesOccurred without a call of
\* send_email and leaves changes_today false if force is set or the state's
\* last_summary_day is not that day; otherwise it ends AlreadySent and the
\* state file, changes_today true, is as it was
C7_ChangeSuppressesUnmarkedSummary ==
    (last.op = "summary" /\ last.pending) =>
        IF last.force \/ ~AlreadyMarked
        THEN /\ last.outcome = "SkippedChangesOccurred"
             /\ last.notifs = <<>>
             /\ ~NowState.changes_today
        ELSE /\ last.outcome = "AlreadySent"
             /\ file = last.pre
             /\ NowState.changes_today

\* a summary was skipped for a change after an earlier summary on another day
C7_Witness ==
    /\ last.op = "summary"
    /\ last.pending
    /\ ~last.force
    /\ PreState.last_summary_day \notin {None, Some(LastDay)}
    /\ last.outcome = "SkippedChangesOccurred"
    /\ ~NowState.changes_today

\* C8: a DailySummary, forced or not, sends "No changes detected" only if no
\* Check called send_email with "Change detected" earlier on the same UTC day
C8_SummaryOnlyWithoutChange ==
    (last.op = "summary" /\ SummariesSent # {}) => ~last.notified

\* what a DailySummary invocation produces: its outcome, its calls of
\* send_email, and what it writes to the state file
Produced(out) ==
    [outcome |-> out.outcome, notifs |-> out.notifs,
     written |-> IF out.writes = 0 THEN None ELSE out.file]

Days == 0..today_key(MaxClock)

\* C9: on every reachable state and however the SMTP side ends, when
\* last_summary_day is not today the forced DailySummary ends as the unforced
\* one does (same outcome, same state file, same calls of send_email); when
\* last_summary_day is today the forced one produces what the unforced one
\* produces on the state with another last_summary_day, and ends
\* SkippedChangesOccurred if changes_today is set and Sent otherwise
C9_ForceOnlyBypassesGuard ==
    \A mail \in Mail :
        LET today == today_key(now_utc)
            forced == run_daily_summary(file, TRUE, mail, now_utc)
            unforced == run_daily_summary(file, FALSE, mail, now_utc)
        IN
        IF NowState.last_summary_day # Some(today)
        THEN forced = unforced
        ELSE /\ \A d \in {None} \cup {Some(e) : e \in Days \ {today}} :
                   LET other == Some([NowState EXCEPT !.last_summary_day = d])
                   IN Produced(forced) =
                          Produced(run_daily_summary(other, FALSE, mail, now_utc))
             /\ forced.outcome = IF NowState.changes_today
                                 THEN "SkippedChangesOccurred" ELSE "Sent"

\* C10: a DailySummary that loads a state with changes_today false, and with
\* last_summary_day other than today or force set, ends Sent, calls send_email
\* once with "No changes detected", and writes once the loaded state with
\* last_summary_day = today and changes_today = false
C10_SentStep ==
    (last.op = "summary" /\ ~PreState.changes_today
        /\ (last.force \/ ~AlreadyMarked)) =>
        /\ last.outcome = "Sent"
        /\ Len(last.notifs) = 1
        /\ last.notifs[1].kind = "No changes detected"
        /\ last.notifs[1].day = Some(LastDay)
        /\ last.writes = 1
        /\ file = Some([PreState EXCEPT !.last_summary_day = Some(LastDay),
                                        !.changes_today = FALSE])

\* the send_email calls of the last invocation that raised
FailedDeliveries ==
    {k \in 1..Len(last.notifs) : last.notifs[k].delivery = "failed"}

\* C11: in a Check on the change path and in a DailySummary on the send path
\* the new state is saved before send_email is called, so that when the
\* delivery fails the invocation has written the state it was to write
C11_PersistBeforeDelivery ==
    (last.op \in {"check", "summary"} /\ FailedDeliveries # {}) =>
        /\ last.writes = 1
        /\ file =
               IF last.op = "check"
               THEN Some(changed_state(PreState, last.r.value,
                                       Some(value_hash(last.r.value)), last.now))
               ELSE Some([PreState EXCEPT
                             !.last_summary_day = Some(LastDay),
                             !.changes_today = FALSE])

\* C12: no invocation ends with an exception other than the configuration
\* error's: a failure of fetch, extraction, generate_pdf or send_email is
\* caught and the invocation ends normally
C12_OnlyConfigurationErrorEscapes ==
    last.raisedAt \in {"none", "SystemExit"}

\* C13: a Check without a URL, or with neither a selector nor a pattern, ends
\* with the fatal configuration error before load_state, fetch_content and
\* save_state are called, and not as an extraction failure
C13_ConfigurationErrorIsFatal ==
    (last.op = "check" /\ (~last.config.url \/ ~last.config.rule)) =>
        /\ last.outcome = "ConfigError"
        /\ last.raisedAt = "SystemExit"
        /\ last.loads = 0
        /\ last.fetches = 0
        /\ last.writes = 0
        /\ file = last.pre

\* C14: a Check, whatever its outcome, leaves last_summary_day as it was and
\* never turns changes_today from true to false; a step that changes
\* last_summary_day or turns changes_today false is a DailySummary, and a
\* DailySummary that writes sets last_summary_day to its day and
\* changes_today to false together
C14_CheckKeepsSummaryFields ==
    /\ last.op = "check" =>
           /\ NowState.last_summary_day = PreState.last_summary_day
           /\ PreState.changes_today => NowState.changes_today
           /\ NowState.changes_today # PreState.changes_today =>
                  NowState.changes_today
    /\ (\/ NowState.last_summary_day # PreState.last_summary_day
        \/ (PreState.changes_today /\ ~NowState.changes_today)) =>
           last.op = "summary"
    /\ (last.op = "summary" /\ last.writes = 1) =>
           /\ NowState.last_summary_day = Some(LastDay)
           /\ NowState.changes_today = FALSE

\* a Check has written its update to a state that carried a summary day and
\* changes_today already true
C14_Witness ==
    /\ last.op = "check"
    /\ last.writes = 1
    /\ PreState.last_summary_day # None
    /\ PreState.changes_today
    /\ file # last.pre

\* C15: changes_today on file is true exactly when a Check has reported
\* Changed since the most recent DailySummary that ended Sent or
\* SkippedChangesOccurred (since the start when there was none)
C15_ChangesTodayMeaning ==
    NowState.changes_today = changedSinceReset

\* C16: whenever a DailySummary on day D ends SkippedChangesOccurred, a Check
\* reported Changed and called send_email for the change on that same day D
\* (every Check that reports Changed has called send_email, so the claim
\* requires at least that a Check called it on day D)
C16_SkipCoveredBySameDayChange ==
    (last.op = "summary" /\ last.outcome = "SkippedChangesOccurred") =>
        last.notified

\* C17: an invocation calls save_state at most once, and the file differs
\* from the loaded one only when it did; a Check calls it once when it ends
\* Changed and not at all when it ends NoChange or ExtractionFailed; a
\* DailySummary calls it once when it ends Sent or SkippedChangesOccurred and
\* not at all when it ends AlreadySent
C17_WritesPerOutcome ==
    /\ last.writes \in {0, 1}
    /\ file # last.pre => last.writes = 1
    /\ last.op = "check" =>
           /\ last.outcome = "Changed" => last.writes = 1
           /\ last.outcome \in {"NoChange", "ExtractionFailed"} =>
                  (last.writes = 0 /\ file = last.pre)
    /\ last.op = "summary" =>
           /\ last.outcome \in {"Sent", "SkippedChangesOccurred"} =>
                  last.writes = 1
           /\ last.outcome = "AlreadySent" =>
                  (last.writes = 0 /\ file = last.pre)

\* a Check has found the stored hash again in an existing state file
C17_Witness ==
    /\ last.op = "check"
    /\ last.outcome = "NoChange"
    /\ last.pre # None
    /\ last.writes = 0

\* the value-tracking fields of a state
Tracking(state) ==
    <<state.last_value, state.last_value_hash, state.last_change_ts>>

\* C19: after a DailySummary, whatever its outcome, last_value,
\* last_value_hash and last_change_ts are as they were loaded, and every Check
\* has on the file the summary left the outcome it has on the file the
\* summary found
C19_SummaryKeepsTracking ==
    last.op = "summary" =>
        /\ Tracking(NowState) = Tracking(PreState)
        /\ \A i \in CheckInputs :
               run_check(file, i.cfg, i.r, i.pdf_ok, i.mail, now_utc).outcome
                   = run_check(last.pre, i.cfg, i.r, i.pdf_ok, i.mail,
                               now_utc).outcome

\* a DailySummary has written to a state that holds a value
C19_Witness ==
    /\ last.op = "summary"
    /\ last.outcome \in {"Sent", "SkippedChangesOccurred"}
    /\ last.writes = 1
    /\ file # last.pre
    /\ PreState.last_value # None

\* last_value, last_value_hash and last_change_ts of a state are all absent
\* or all present
AllOrNone(state) ==
    \/ /\ state.last_value = None
       /\ state.last_value_hash = None
       /\ state.last_change_ts = None
    \/ /\ state.last_value # None
       /\ state.last_value_hash # None
       /\ state.last_change_ts # None

\* C20: in every reachable state the three value-tracking fields are all
\* absent or all present; an invocation that loaded them present leaves them
\* present; a Check that ends Changed has an old value different from the new
C20_TrackingPresence ==
    /\ AllOrNone(NowState)
    /\ AllOrNone(PreState)
    /\ PreState.last_value # None => NowState.last_value # None
    /\ (last.op = "check" /\ last.outcome = "Changed") =>
           last.notifs[1].old # last.notifs[1].new

\* a Check has ended Changed on a state that already held a value
C20_Witness ==
    /\ last.op = "check"
    /\ last.outcome = "Changed"
    /\ PreState.last_value # None
    /\ NowState.last_value = Some(last.r.value)

\* the last invocation saved, and between its load_state and its save_state
\* the other invocation had saved a different state
SavedOverOther == done.wrote /\ done.found # done.loaded

\* C18: when a Check and a DailySummary overlap, the state on file after the
\* later save holds the update of both: a Check that saves last keeps the
\* last_summary_day the DailySummary wrote, a DailySummary that saves last
\* keeps the last_value, last_value_hash and last_change_ts the Check wrote
C18_NoLostUpdate ==
    SavedOverOther =>
        IF done.op = "check"
        THEN NowState.last_summary_day = load_state(done.found).last_summary_day
        ELSE Tracking(NowState) = Tracking(load_state(done.found))

\* C18 amended: an invocation saves the state it loaded with its own fields
\* assigned, whatever is on file by then: after a Check that saved,
\* last_summary_day is the one it loaded, and after a DailySummary that saved,
\* last_value, last_value_hash and last_change_ts are the ones it loaded; so
\* the update of the other invocation is kept only when it was made before
\* the load
C18_LastWriterWins ==
    done.wrote =>
        /\ done.op = "check" =>
               NowState.last_summary_day =
                   load_state(done.loaded).last_summary_day
        /\ done.op = "summary" =>
               Tracking(NowState) = Tracking(load_state(done.loaded))
        /\ done.found = done.loaded =>
               /\ done.op = "check" =>
                      NowState.last_summary_day =
                          load_state(done.found).last_summary_day
               /\ done.op = "summary" =>
                      Tracking(NowState) = Tracking(load_state(done.found))

\* a Check has saved over a DailySummary's save made after the Check's load:
\* the summary day it had loaded is back on file, the one written is gone
C18_Witness ==
    /\ SavedOverOther
    /\ done.op = "check"
    /\ load_state(done.loaded).last_summary_day # None
    /\ load_state(done.found).last_summary_day
           # load_state(done.loaded).last_summary_day
    /\ NowState.last_summary_day = load_state(done.loaded).last_summary_day

====
